---- MODULE Spec2Model ----
(***************************************************************************)
(* Model of the incremental Jira -> Airtable mirror (src/sync.py).         *)
(*                                                                         *)
(* The source (Jira) is a set of issues keyed 1..MaxKey; the target        *)
(* (Airtable) is a table of records whose id is their position in the      *)
(* table.  One run of JiraAirtableSync.sync_issues is a sequence of steps  *)
(* (watermark read, count query, page requests, transform, match, one      *)
(* step per write batch); every remote call may fail.                      *)
(*                                                                         *)
(* Values are integers: issue keys, times, select options and record ids   *)
(* are all >= 1, and 0 stands for Python's None.                           *)
(***************************************************************************)
EXTENDS Integers, Sequences, FiniteSets, TLC

\* ---------------------------------------------------------------- bounds
MaxKey == 2
MaxEdits == 2
MaxRuns == 2
MaxFaults == 1
MaxPayloads == 3
MaxItems == 2
MaxRetries == 4

\* records per create request of table.batch_create (the client library sends
\* a batch as consecutive requests of at most this many records)
MaxPerRequest == 2
TicksPerMinute == 2

\* ------------------------------------------------------ program constants
RETRIES == 3
CHUNK_SIZE == 100

None == 0
Keys == 1 .. MaxKey
Options == {1, 2}

\* the configurations explored: config.batch_size and MAX_RESULTS
BatchSizes == {1, 2}
PageSizes == {1, 2}

\* issue.fields.parent: attribute absent, attribute present but None, or a
\* parent issue whose key is the value
ParentAbsent == 0
ParentNone == -1

\* a stored updated value that datetime.fromisoformat rejects
Unparsable == -1

NoIssue == [st |-> "none", updated |-> 0, parent |-> 0, status |-> 0]

\* ------------------------------------------------------- field mappings
\* config.field_mappings: Jira field -> Airtable field id
FieldIds == [key |-> "fldKey", updated |-> "fldUpdated",
             status |-> "fldStatus", parent |-> "fldParent"]

JiraFields == <<"key", "updated", "status", "parent">>

\* the table schema: Airtable field id -> field name
SchemaNames == [fldKey |-> "Jira Key", fldUpdated |-> "Last Updated",
                fldStatus |-> "Status", fldParent |-> "Parent"]

\* the field ids present in the table schema, as table.schema() returns them
VARIABLES schema_ids

\* ------------------------------------------------------------- helpers
Min(a, b) == IF a < b THEN a ELSE b

RECURSIVE SeqOfSet(_)
SeqOfSet(S) ==
    IF S = {} THEN <<>>
    ELSE LET m == CHOOSE x \in S : \A y \in S : x <= y
         IN <<m>> \o SeqOfSet(S \ {m})

Range(s) == {s[i] : i \in DOMAIN s}

\* a Python dict with one more entry
Put(d, k, v) == [x \in DOMAIN d \cup {k} |-> IF x = k THEN v ELSE d[x]]

\* dict.get(k): None when the key is absent
Get(d, k) == IF k \in DOMAIN d THEN d[k] ELSE None

EmptyDict == [x \in {} |-> None]

NoName == ""

\* str.startswith('fld') on the field ids of the mapping
HasFldPrefix(id) == id \in {"fldKey", "fldUpdated", "fldStatus", "fldParent"}

\* --------------------------------------------------- construction-time
\* _populate_field_names: the name of a mapped field after construction.
\* provided: the Jira fields whose mapping carries airtable_field_name in the
\* configuration; schema_ok: table.schema() returned.
PopulateFieldNames(provided, schema_ok) ==
    [jf \in Range(JiraFields) |->
        IF jf \in provided THEN SchemaNames[FieldIds[jf]]
        ELSE IF schema_ok /\ jf = "updated" /\ FieldIds[jf] \in schema_ids
             THEN SchemaNames[FieldIds[jf]]
        ELSE NoName]

\* ----------------------------------------------------------- field values
\* A field value of a Jira issue: a plain str/int/float/bool (kind "prim",
\* the value is prim), an object with some of the attributes value, name and
\* displayName (kind "obj"), or a list of elements (kind "list").  An element
\* of a list is a field value of kind "prim" or "obj".
Attrs == {"value", "name", "displayName"}

FieldValue(kind, has, value, name, prim, items) ==
    [kind |-> kind, has |-> has, value |-> value, name |-> name,
     displayName |-> 3, prim |-> prim, items |-> items]

\* str(field): the text of an object is none of its attribute values
Str(field) == 10 + field.prim

\* what _process_field_value hands back: a scalar v, a list items, or an
\* exception
Scalar(v) == [raised |-> FALSE, list |-> FALSE, v |-> v, items |-> <<>>]
ListOf(items) == [raised |-> FALSE, list |-> TRUE, v |-> None, items |-> items]
Raised == [raised |-> TRUE, list |-> FALSE, v |-> None, items |-> <<>>]

\* the element itself, as it appears in a returned list
Elem(item) == IF item.kind = "prim" THEN item.prim ELSE Str(item)

HasAttr(field, attr) == field.kind = "obj" /\ attr \in field.has

\* [item.value for item in field]: raises when an element lacks the attribute
ItemValues(items) ==
    IF \A i \in DOMAIN items : HasAttr(items[i], "value")
    THEN ListOf([i \in DOMAIN items |-> items[i].value])
    ELSE Raised

ItemNames(items) ==
    IF \A i \in DOMAIN items : HasAttr(items[i], "name")
    THEN ListOf([i \in DOMAIN items |-> items[i].name])
    ELSE Raised

\* a variant that looks for the name attribute before the value attribute
ProcessFieldValueNameFirst(field) ==
    IF field.kind = "prim" THEN Scalar(field.prim)
    ELSE IF HasAttr(field, "name") THEN Scalar(field.name)
    ELSE IF HasAttr(field, "value") THEN Scalar(field.value)
    ELSE IF field.kind = "list"
    THEN IF field.items = <<>> THEN Scalar(None)
         ELSE IF HasAttr(field.items[1], "value") THEN ItemValues(field.items)
         ELSE IF HasAttr(field.items[1], "name") THEN ItemNames(field.items)
         ELSE ListOf([i \in DOMAIN field.items |-> Elem(field.items[i])])
    ELSE IF HasAttr(field, "displayName") THEN Scalar(field.displayName)
    ELSE Scalar(Str(field))

\* _process_field_value
ProcessFieldValue(field) ==
    IF field.kind = "prim" THEN Scalar(field.prim)
    ELSE IF HasAttr(field, "value") THEN Scalar(field.value)
    ELSE IF HasAttr(field, "name") THEN Scalar(field.name)
    ELSE IF field.kind = "list"
    THEN IF field.items = <<>> THEN Scalar(None)
         ELSE IF HasAttr(field.items[1], "value") THEN ItemValues(field.items)
         ELSE IF HasAttr(field.items[1], "name") THEN ItemNames(field.items)
         ELSE ListOf([i \in DOMAIN field.items |-> Elem(field.items[i])])
    ELSE IF HasAttr(field, "displayName") THEN Scalar(field.displayName)
    ELSE Scalar(Str(field))

\* ------------------------------------------------------------- extraction
\* issue.fields.status: an object whose name is the option, or, for the
\* status Unreadable, a value on which _process_field_value raises (a list
\* whose first element has a value attribute and whose second has none)
Unreadable == -1

StatusField(status) ==
    IF status = Unreadable
    THEN FieldValue("list", {}, None, None, 1,
                    <<FieldValue("obj", {"value"}, 1, None, 1, <<>>),
                      FieldValue("obj", {}, None, None, 1, <<>>)>>)
    ELSE FieldValue("obj", {"name"}, None, status, 1, <<>>)

\* _get_issue_field_value for an issue object; an exception of the
\* extraction is caught and None returned
GetIssueFieldValue(issue, field_name) ==
    CASE field_name = "key" -> issue.key
      [] field_name = "parent" ->
            IF issue.parent = ParentAbsent THEN None
            ELSE IF issue.parent = ParentNone THEN None
            ELSE issue.parent
      [] field_name = "updated" -> issue.updated
      [] field_name = "status" ->
            LET r == ProcessFieldValue(StatusField(issue.status))
            IN IF r.raised THEN None ELSE r.v
      [] OTHER -> None

RECURSIVE ConvertFields(_, _, _)
ConvertFields(issue, n, record_data) ==
    IF n > Len(JiraFields) THEN record_data
    ELSE LET jira_field == JiraFields[n]
             field_value == GetIssueFieldValue(issue, jira_field)
         IN IF jira_field = "parent"
            THEN ConvertFields(issue, n + 1, record_data)
            ELSE IF field_value # None
            THEN ConvertFields(issue, n + 1,
                               Put(record_data, FieldIds[jira_field], field_value))
            ELSE ConvertFields(issue, n + 1, record_data)

\* a conversion that also writes the parent key into the payload
ConvertIssueToRecordWithParent(issue) ==
    LET record_data == ConvertFields(issue, 1, EmptyDict)
        parent == GetIssueFieldValue(issue, "parent")
    IN IF parent # None THEN Put(record_data, FieldIds["parent"], parent)
       ELSE record_data

\* _convert_issue_to_record, object format
ConvertIssueToRecord(issue) == ConvertFields(issue, 1, EmptyDict)

\* _convert_issue_to_record, dictionary format
ConvertDictToRecord(issue) ==
    IF \E k \in DOMAIN issue : HasFldPrefix(k) THEN issue
    ELSE LET present == {jf \in Range(JiraFields) \ {"parent"} : jf \in DOMAIN issue}
         IN [id \in {FieldIds[jf] : jf \in present} |->
                issue[CHOOSE jf \in present : FieldIds[jf] = id]]

\* _extract_parent_key, object format: issue.fields.parent.key raises
\* AttributeError when the attribute is present and None
ExtractParentKey(issue) ==
    IF issue.parent = ParentAbsent THEN [raised |-> FALSE, value |-> None]
    ELSE IF issue.parent = ParentNone THEN [raised |-> TRUE, value |-> None]
    ELSE [raised |-> FALSE, value |-> issue.parent]

\* _extract_parent_key, dictionary format
ExtractParentKeyDict(issue) ==
    LET parent_field == IF "parent" \in Range(JiraFields) THEN "parent" ELSE NoName
    IN IF parent_field # NoName /\ parent_field \in DOMAIN issue
       THEN issue[parent_field]
       ELSE None

\* the transform loop of sync_issues over the fetched issues
RECURSIVE TransformIssues(_, _, _)
TransformIssues(issues, n, acc) ==
    IF n > Len(issues) THEN acc
    ELSE LET issue == issues[n]
             data == ConvertIssueToRecord(issue)
             pk == ExtractParentKey(issue)
         IN IF pk.raised
            THEN TransformIssues(issues, n + 1,
                    [acc EXCEPT !.transform_errors = Append(@, issue.key)])
            ELSE TransformIssues(issues, n + 1,
                    [acc EXCEPT
                       !.key_to_parent =
                           IF pk.value # None THEN Put(@, issue.key, pk.value) ELSE @,
                       !.all_keys =
                           (IF pk.value # None THEN @ \cup {pk.value} ELSE @)
                               \cup {issue.key},
                       !.transformed_issues = Append(@, <<issue.key, data>>)])

NoTransform == [transformed_issues |-> <<>>, key_to_parent |-> EmptyDict,
                all_keys |-> {}, transform_errors |-> <<>>]

\* ------------------------------------------------------------ the source
\* _format_jira_timestamp: the watermark cut to minute precision
FormatJiraTimestamp(timestamp) ==
    IF timestamp = Unparsable THEN None
    ELSE (timestamp \div TicksPerMinute) * TicksPerMinute

\* the JQL of _fetch_updated_jira_issues as the list of its AND-joined parts
\* followed by the ORDER BY part
BuildJql(jira_project_key, last_sync, jql_filter) ==
    <<[part |-> "project", arg |-> jira_project_key]>>
    \o (IF last_sync # None
        THEN <<[part |-> "updated", arg |-> FormatJiraTimestamp(last_sync)]>>
        ELSE <<>>)
    \o (IF jql_filter # "" THEN <<[part |-> "filter", arg |-> jql_filter]>>
        ELSE <<>>)
    \o <<[part |-> "order", arg |-> "key ASC"]>>

\* the issues a JQL "project = P [AND updated > 'minute'] ORDER BY key ASC"
\* query matches in source src, ascending by key
MatchingKeys(src, sync_time) ==
    {k \in Keys : /\ src[k].st = "live"
                  /\ (sync_time # None =>
                         src[k].updated > FormatJiraTimestamp(sync_time))}

IssueObject(src, k) == [key |-> k, updated |-> src[k].updated,
                        parent |-> src[k].parent, status |-> src[k].status]

\* jira.search_issues(jql, startAt, maxResults)
SearchIssues(src, sync_time, startAt, maxResults) ==
    LET keys == SeqOfSet(MatchingKeys(src, sync_time))
        last == Min(startAt + maxResults, Len(keys))
    IN [i \in 1 .. (IF last > startAt THEN last - startAt ELSE 0) |->
            IssueObject(src, keys[startAt + i])]

\* jira.search_issues(jql, maxResults=0).total
SearchTotal(src, sync_time) == Cardinality(MatchingKeys(src, sync_time))

\* ------------------------------------------------------------ the target
\* a record as the Airtable API returns it: fields keyed by field name
ApiRecord(tbl, id) ==
    LET fields == tbl[id].fields
    IN [id |-> id,
        fields |-> [n \in {SchemaNames[f] : f \in DOMAIN fields} |->
                       fields[CHOOSE f \in DOMAIN fields : SchemaNames[f] = n]]]

\* the store rejects a write that names a field the table does not have, or
\* whose select field holds an unknown option
StoreAccepts(chs, fields) ==
    /\ DOMAIN fields \subseteq schema_ids
    /\ "fldStatus" \in DOMAIN fields => fields["fldStatus"] \in chs

\* table.all(sort=['-' + field], max_records=1): empty values sort last
TopRecordBy(tbl, field) ==
    IF Len(tbl) = 0 THEN <<>>
    ELSE LET id == CHOOSE i \in 1 .. Len(tbl) : \A j \in 1 .. Len(tbl) :
                       Get(ApiRecord(tbl, i).fields, field)
                           >= Get(ApiRecord(tbl, j).fields, field)
         IN <<ApiRecord(tbl, id)>>

\* _get_most_recent_jira_update_time; query_fails: table.all raises
GetMostRecentJiraUpdateTime(tbl, updated_field, query_fails) ==
    IF updated_field = NoName THEN None
    ELSE IF query_fails THEN None
    ELSE LET records == TopRecordBy(tbl, updated_field)
         IN IF records # <<>> /\ Get(records[1].fields, updated_field) # None
            THEN records[1].fields[updated_field]
            ELSE None

\* a matcher that keeps the first record seen for a key instead of the last
MapRecordsFirstSeen(tbl, chunk, key_field_name, id, key_to_id) ==
    LET ids(k) == {i \in 1 .. Len(tbl) :
                      Get(ApiRecord(tbl, i).fields, key_field_name) = k}
        found == {k \in Range(chunk) : k # None /\ ids(k) # {}}
    IN [k \in DOMAIN key_to_id \cup found |->
           IF k \in found
           THEN CHOOSE i \in ids(k) : \A j \in ids(k) : i <= j
           ELSE key_to_id[k]]

\* a matcher that does not read the key of the record it maps: every key of
\* the chunk gets the id of the first record of the table
MapRecordsFirstRecord(tbl, chunk, key_field_name, id, key_to_id) ==
    IF Len(tbl) = 0 THEN key_to_id
    ELSE [k \in DOMAIN key_to_id \cup Range(chunk) |->
             IF k \in Range(chunk) THEN 1 ELSE key_to_id[k]]

\* table.all(formula = OR({name} = 'k', ...)) for the keys of one chunk, then
\* the loop that maps each record's key to its id (the last record wins)
RECURSIVE MapRecords(_, _, _, _, _)
MapRecords(tbl, chunk, key_field_name, id, key_to_id) ==
    IF id > Len(tbl) THEN key_to_id
    ELSE LET jira_key == Get(ApiRecord(tbl, id).fields, key_field_name)
         IN IF jira_key # None /\ jira_key \in Range(chunk)
            THEN MapRecords(tbl, chunk, key_field_name, id + 1,
                            Put(key_to_id, jira_key, id))
            ELSE MapRecords(tbl, chunk, key_field_name, id + 1, key_to_id)

\* jira_keys[i:i + chunk_size] for i in range(0, len(jira_keys), chunk_size)
Chunk(jira_keys, c, chunk_size) ==
    SubSeq(jira_keys, (c - 1) * chunk_size + 1,
           Min(c * chunk_size, Len(jira_keys)))

NumChunks(jira_keys, chunk_size) ==
    (Len(jira_keys) + chunk_size - 1) \div chunk_size

RECURSIVE LookupChunks(_, _, _, _, _, _)
LookupChunks(tbl, jira_keys, key_field_name, c, failing, key_to_id) ==
    IF c > NumChunks(jira_keys, CHUNK_SIZE) THEN key_to_id
    ELSE LookupChunks(tbl, jira_keys, key_field_name, c + 1, failing,
            IF c \in failing THEN key_to_id
            ELSE MapRecords(tbl, Chunk(jira_keys, c, CHUNK_SIZE),
                            key_field_name, 1, key_to_id))

\* the queries _get_existing_record_ids issues, as the chunks they ask for
LookupQueries(jira_keys, key_field_id, key_field_name) ==
    IF jira_keys = <<>> THEN <<>>
    ELSE IF key_field_id = NoName \/ key_field_name = NoName THEN <<>>
    ELSE [c \in 1 .. NumChunks(jira_keys, CHUNK_SIZE) |->
             Chunk(jira_keys, c, CHUNK_SIZE)]

\* _get_existing_record_ids; failing: the chunks whose query raises
GetExistingRecordIds(tbl, jira_keys, key_field_id, key_field_name, failing) ==
    IF jira_keys = <<>> THEN EmptyDict
    ELSE IF key_field_id = NoName \/ key_field_name = NoName THEN EmptyDict
    ELSE LookupChunks(tbl, jira_keys, key_field_name, 1, failing, EmptyDict)

\* _get_airtable_field_id
GetAirtableFieldId(jira_field) ==
    IF jira_field \in DOMAIN FieldIds THEN FieldIds[jira_field] ELSE NoName

\* ------------------------------------------------------------ the writers
Row(fields) == [fields |-> fields]

RECURSIVE Rows(_)
Rows(records) ==
    IF records = <<>> THEN <<>> ELSE <<Row(Head(records))>> \o Rows(Tail(records))

\* table.batch_create: one request, refused as a whole when a record is refused
BatchCreateOk(chs, records, fault) ==
    ~fault /\ \A i \in DOMAIN records : StoreAccepts(chs, records[i])

\* the first request of table.batch_create that fails (0: none does); the
\* transient fault hits the first request
FirstFailedRequest(chs, records, fault) ==
    LET n == NumChunks(records, MaxPerRequest)
        fails(c) == \/ c = 1 /\ fault
                    \/ \E i \in DOMAIN Chunk(records, c, MaxPerRequest) :
                          ~StoreAccepts(chs, Chunk(records, c, MaxPerRequest)[i])
    IN IF \E c \in 1 .. n : fails(c)
       THEN CHOOSE c \in 1 .. n : fails(c) /\ \A d \in 1 .. (c - 1) : ~fails(d)
       ELSE 0

\* the records the store has created when table.batch_create raises: those of
\* the requests before the failing one
CreatedBeforeFailure(chs, records, fault) ==
    LET c == FirstFailedRequest(chs, records, fault)
    IN IF c = 0 THEN records
       ELSE SubSeq(records, 1, (c - 1) * MaxPerRequest)

\* table.create(record)
CreateOk(chs, record, fault) == ~fault /\ StoreAccepts(chs, record)

\* the one-by-one fallback loop of _batch_create_with_progress
RECURSIVE CreateOneByOne(_, _, _, _, _)
CreateOneByOne(chs, records, n, record_faults, acc) ==
    IF n > Len(records) THEN acc
    ELSE IF CreateOk(chs, records[n], n \in record_faults)
    THEN CreateOneByOne(chs, records, n + 1, record_faults,
            [acc EXCEPT !.table = Append(@, Row(records[n])),
                        !.created_count = @ + 1])
    ELSE CreateOneByOne(chs, records, n + 1, record_faults,
            [acc EXCEPT !.failed_records = Append(@, records[n])])

\* a variant that gives up on the whole batch instead of creating one by one
BatchCreateNoFallback(tbl, chs, records, batch_fault, record_faults) ==
    IF BatchCreateOk(chs, records, batch_fault)
    THEN [table |-> tbl \o Rows(records), created_count |-> Len(records),
          failed_records |-> <<>>, raised |-> FALSE]
    ELSE [table |-> tbl, created_count |-> 0, failed_records |-> records,
          raised |-> FALSE]

\* _batch_create_with_progress; batch_fault: table.batch_create fails for a
\* transient reason; record_faults: positions whose table.create does
BatchCreateWithProgress(tbl, chs, records, batch_fault, record_faults) ==
    IF BatchCreateOk(chs, records, batch_fault)
    THEN [table |-> tbl \o Rows(records), created_count |-> Len(records),
          failed_records |-> <<>>, raised |-> FALSE]
    ELSE CreateOneByOne(chs, records, 1, record_faults,
            [table |-> tbl \o Rows(CreatedBeforeFailure(chs, records, batch_fault)),
             created_count |-> 0, failed_records |-> <<>>, raised |-> FALSE])

\* table.batch_update: one request; a record keeps the fields not written
BatchUpdateOk(tbl, chs, updates, fault) ==
    ~fault /\ \A i \in DOMAIN updates :
                 /\ updates[i].id \in 1 .. Len(tbl)
                 /\ StoreAccepts(chs, updates[i].fields)

RECURSIVE ApplyUpdates(_, _, _)
ApplyUpdates(tbl, updates, n) ==
    IF n > Len(updates) THEN tbl
    ELSE LET u == updates[n]
             old == tbl[u.id].fields
             new == [f \in DOMAIN old \cup DOMAIN u.fields |->
                        IF f \in DOMAIN u.fields THEN u.fields[f] ELSE old[f]]
         IN ApplyUpdates([tbl EXCEPT ![u.id] = Row(new)], updates, n + 1)

\* isinstance(issue, dict): a payload or dictionary, as opposed to an issue
\* object, which has the attribute key
IsDict(issue) == "key" \notin DOMAIN issue

\* the loop of _update_parent_relationships raises: _extract_parent_key
\* raises for an issue object of the list
ParentLoopRaises(issues) ==
    \E n \in DOMAIN issues :
        ~IsDict(issues[n]) /\ ExtractParentKey(issues[n]).raised

\* the loop of _update_parent_relationships that collects the link updates
RECURSIVE ParentUpdates(_, _, _, _)
ParentUpdates(issues, existing_record_ids, n, parent_updates) ==
    IF n > Len(issues) THEN parent_updates
    ELSE LET issue == issues[n]
             key_field_id == GetAirtableFieldId("key")
             skip == IsDict(issue) /\ (key_field_id = NoName
                                          \/ key_field_id \notin DOMAIN issue)
             issue_key == IF IsDict(issue) THEN issue[key_field_id] ELSE issue.key
             parent_key == IF IsDict(issue) THEN ExtractParentKeyDict(issue)
                           ELSE ExtractParentKey(issue).value
             parent_field_id == GetAirtableFieldId("parent")
         IN IF skip THEN ParentUpdates(issues, existing_record_ids, n + 1, parent_updates)
            ELSE IF parent_key = None
            THEN ParentUpdates(issues, existing_record_ids, n + 1, parent_updates)
            ELSE IF issue_key \notin DOMAIN existing_record_ids
            THEN ParentUpdates(issues, existing_record_ids, n + 1, parent_updates)
            ELSE IF parent_key \notin DOMAIN existing_record_ids
            THEN ParentUpdates(issues, existing_record_ids, n + 1, parent_updates)
            ELSE IF parent_field_id = NoName
            THEN ParentUpdates(issues, existing_record_ids, n + 1, parent_updates)
            ELSE ParentUpdates(issues, existing_record_ids, n + 1,
                    Append(parent_updates,
                           [id |-> existing_record_ids[issue_key],
                            fields |-> Put(EmptyDict, parent_field_id,
                                           <<existing_record_ids[parent_key]>>)]))

\* a second pass that gives up when a link cannot be resolved
UpdateParentRelationshipsStrict(tbl, chs, issues, existing_record_ids, fault) ==
    LET parent_updates == ParentUpdates(issues, existing_record_ids, 1, <<>>)
        wanted == {n \in DOMAIN issues :
                      IsDict(issues[n]) /\ ExtractParentKeyDict(issues[n]) # None}
    IN IF Len(parent_updates) < Cardinality(wanted)
       THEN [table |-> tbl, link_writes |-> 0, raised |-> TRUE,
             parent_updates |-> <<>>]
       ELSE [table |-> ApplyUpdates(tbl, parent_updates, 1),
             link_writes |-> IF parent_updates = <<>> THEN 0 ELSE 1,
             raised |-> FALSE, parent_updates |-> parent_updates]

\* _update_parent_relationships; fault: the link batch_update fails
UpdateParentRelationships(tbl, chs, issues, existing_record_ids, fault) ==
    LET parent_updates == ParentUpdates(issues, existing_record_ids, 1, <<>>)
    IN IF ParentLoopRaises(issues)
       THEN [table |-> tbl, link_writes |-> 0, raised |-> TRUE,
             parent_updates |-> <<>>]
       ELSE IF parent_updates = <<>>
       THEN [table |-> tbl, link_writes |-> 0, raised |-> FALSE,
             parent_updates |-> parent_updates]
       ELSE IF BatchUpdateOk(tbl, chs, parent_updates, fault)
       THEN [table |-> ApplyUpdates(tbl, parent_updates, 1), link_writes |-> 1,
             raised |-> FALSE, parent_updates |-> parent_updates]
       ELSE [table |-> tbl, link_writes |-> 1, raised |-> FALSE,
             parent_updates |-> parent_updates]

\* the first loop of _process_issue_batch: split into creates and updates
RECURSIVE SplitBatch(_, _, _, _)
SplitBatch(issues, existing_record_ids, n, acc) ==
    IF n > Len(issues) THEN acc
    ELSE LET issue == issues[n]
             key == Get(issue, GetAirtableFieldId("key"))
             record_data == ConvertDictToRecord(issue)
         IN IF key = None THEN SplitBatch(issues, existing_record_ids, n + 1, acc)
            ELSE IF key \in DOMAIN existing_record_ids
                    /\ existing_record_ids[key] # None
            THEN SplitBatch(issues, existing_record_ids, n + 1,
                    [acc EXCEPT !.records_to_update =
                        Append(@, [id |-> existing_record_ids[key],
                                   fields |-> record_data])])
            ELSE SplitBatch(issues, existing_record_ids, n + 1,
                    [acc EXCEPT !.records_to_create = Append(@, record_data)])

NoSplit == [records_to_create |-> <<>>, records_to_update |-> <<>>]

\* _process_issue_batch.  f: which remote calls fail for a transient reason
\* (f.create: batch_create, f.records: the single creates, f.update: the
\* batch_update, f.link: the parent-link batch_update)
ProcessIssueBatch(tbl, chs, issues, existing_record_ids, f) ==
    LET split == SplitBatch(issues, existing_record_ids, 1, NoSplit)
        to_create == split.records_to_create
        to_update == split.records_to_update
        c == IF to_create # <<>>
             THEN BatchCreateWithProgress(tbl, chs, to_create, f.create, f.records)
             ELSE [table |-> tbl, created_count |-> 0, failed_records |-> <<>>,
                   raised |-> FALSE]
        update_ok == BatchUpdateOk(c.table, chs, to_update, f.update)
        tbl2 == IF to_update # <<>> /\ update_ok
                THEN ApplyUpdates(c.table, to_update, 1) ELSE c.table
        upd_raised == to_update # <<>> /\ ~update_ok
        p == UpdateParentRelationships(tbl2, chs, issues, existing_record_ids, f.link)
    IN IF c.raised THEN [table |-> c.table, raised |-> TRUE, split |-> split,
                         created |-> c, link_writes |-> 0]
       ELSE IF upd_raised THEN [table |-> tbl2, raised |-> TRUE, split |-> split,
                                created |-> c, link_writes |-> 0]
       ELSE [table |-> p.table, raised |-> p.raised, split |-> split,
             created |-> c, link_writes |-> p.link_writes]

\* ------------------------------------------------------------------ state
VARIABLES
    jira,              \* the source: issue key -> issue
    edits,             \* source changes so far; also the source's clock
    table,             \* the target table; a record's id is its position
    choices,           \* the options of the select field in the table schema
    patches,           \* update_schema calls made so far
    field_names,       \* airtable_field_name of each mapping after __init__
    batch_size,        \* config.batch_size
    max_results,       \* MAX_RESULTS
    pc,                \* position of the run inside sync_issues
    runs,              \* runs started so far
    faults,            \* target-store calls that failed for a transient reason
    attempt,           \* retry index i of _fetch_updated_jira_issues
    last_sync,         \* the watermark read by the current attempt
    wm_failed,         \* the watermark query of the current attempt raised
    total_issues,      \* total read by the count query
    start_at,          \* pagination offset
    all_issues,        \* issues fetched so far
    polls,             \* parity of the page requests made by this attempt
    tr,                \* result of the transform loop
    key_to_record_id,  \* result of _get_existing_record_ids
    batch_at,          \* loop index i of the write loop
    submitted,         \* the creates and updates handed to the store in this run
    lookup_failed,     \* the keys of the chunks whose match query raised
    n0,                \* number of target records when the run started
    table0,            \* the target table when the run started
    failed,            \* keys whose last create or update did not succeed
    raised_by,         \* the phase whose exception left sync_issues
    rejects,           \* writes of this run refused for an unknown option
    link_writes,       \* parent-link updates submitted in this run
    quiet,             \* the source has not changed since this run started
    prev_quiet,        \* the previous run completed and the source has not
                       \* changed since that run started
    call               \* a call of _batch_create_with_progress on its own

vars == <<jira, edits, table, choices, patches, field_names, batch_size,
          max_results, pc, runs, faults, attempt, last_sync, wm_failed,
          total_issues, start_at, all_issues, tr, key_to_record_id, batch_at,
          n0, table0, failed, raised_by, rejects, link_writes, quiet,
          prev_quiet, call, schema_ids, polls, submitted,
          lookup_failed>>

config == <<field_names, batch_size, max_results, schema_ids>>
source == <<jira, edits>>
fetch_locals == <<last_sync, wm_failed, total_issues, start_at, all_issues,
                  polls>>
write_locals == <<tr, key_to_record_id, batch_at, submitted, lookup_failed>>
run_log == <<raised_by, rejects, link_writes, quiet, prev_quiet>>
run_counts == <<raised_by, rejects, link_writes>>
run_start == <<n0, table0>>

NoFaults == [create |-> FALSE, records |-> {}, update |-> FALSE, link |-> FALSE]
NoCall == [st |-> "none", records |-> <<>>, created_count |-> 0,
           failed_records |-> <<>>, raised |-> FALSE, refused |-> {}]

\* every mapped field id, and the schema of a table that has them all
MappedFieldIds == {FieldIds[jf] : jf \in Range(JiraFields)}

\* the state after JiraAirtableSync.__init__, given the table schema and the
\* batch size
InitState ==
    /\ jira = [k \in Keys |-> NoIssue]
    /\ edits = 0
    /\ table = <<>>
    /\ choices = {1}
    /\ patches = 0
    /\ \E provided \in SUBSET {"key"}, schema_ok \in BOOLEAN :
          field_names = PopulateFieldNames(provided, schema_ok)
    /\ max_results \in PageSizes
    /\ pc = "idle"
    /\ runs = 0
    /\ faults = 0
    /\ attempt = 0
    /\ last_sync = None
    /\ wm_failed = FALSE
    /\ total_issues = 0
    /\ start_at = 0
    /\ all_issues = <<>>
    /\ polls = 0
    /\ tr = NoTransform
    /\ key_to_record_id = EmptyDict
    /\ batch_at = 0
    /\ submitted = <<>>
    /\ lookup_failed = {}
    /\ n0 = 0
    /\ table0 = <<>>
    /\ failed = {}
    /\ raised_by = ""
    /\ rejects = 0
    /\ link_writes = 0
    /\ quiet = FALSE
    /\ prev_quiet = FALSE
    /\ call = NoCall

\* the state after JiraAirtableSync.__init__ with a usable batch size
InitEngine ==
    /\ batch_size \in BatchSizes
    /\ InitState

Init ==
    /\ schema_ids = MappedFieldIds
    /\ InitEngine

\* ------------------------------------------------------------ the source
\* the source changes between runs and between two requests of a fetch
SourceMayChange == pc \in {"idle", "page"} /\ edits < MaxEdits

\* the source's clock after n changes: the first change falls on a minute
\* boundary, the next ones inside that minute or on the following boundaries
TimeOfEdit(n) == TicksPerMinute + n - 1

NextKey == Cardinality({k \in Keys : jira[k].st # "none"}) + 1

JiraCreateIssue ==
    /\ SourceMayChange
    /\ NextKey \in Keys
    /\ \E parent \in {ParentAbsent, ParentNone} \cup {k \in Keys : jira[k].st = "live"},
          status \in Options :
          jira' = [jira EXCEPT ![NextKey] =
                      [st |-> "live", updated |-> TimeOfEdit(edits + 1),
                       parent |-> parent, status |-> status]]
    /\ edits' = edits + 1
    /\ quiet' = FALSE
    /\ prev_quiet' = FALSE
    /\ UNCHANGED <<table, choices, patches, config, pc, runs, faults, attempt,
                   fetch_locals, write_locals, run_start, failed, run_counts, call>>

JiraUpdateIssue ==
    /\ SourceMayChange
    /\ \E k \in Keys, status \in Options :
          /\ jira[k].st = "live"
          /\ jira' = [jira EXCEPT ![k].updated = TimeOfEdit(edits + 1), ![k].status = status]
    /\ edits' = edits + 1
    /\ quiet' = FALSE
    /\ prev_quiet' = FALSE
    /\ UNCHANGED <<table, choices, patches, config, pc, runs, faults, attempt,
                   fetch_locals, write_locals, run_start, failed, run_counts, call>>

JiraDeleteIssue ==
    /\ SourceMayChange
    /\ \E k \in Keys :
          /\ jira[k].st = "live"
          /\ jira' = [jira EXCEPT ![k] = [NoIssue EXCEPT !.st = "gone"]]
    /\ edits' = edits + 1
    /\ quiet' = FALSE
    /\ prev_quiet' = FALSE
    /\ UNCHANGED <<table, choices, patches, config, pc, runs, faults, attempt,
                   fetch_locals, write_locals, run_start, failed, run_counts, call>>

\* --------------------------------------------------------------- the run
\* sync_issues is entered
StartRun ==
    /\ pc = "idle"
    /\ runs < MaxRuns
    /\ pc' = "watermark"
    /\ runs' = runs + 1
    /\ attempt' = 0
    /\ n0' = Len(table)
    /\ table0' = table
    /\ quiet' = TRUE
    /\ UNCHANGED <<source, table, choices, patches, config, faults, fetch_locals,
                   write_locals, failed, raised_by, rejects, link_writes,
                   prev_quiet, call>>

\* sync_issues has returned or raised: its locals are gone
Return ==
    /\ pc \in {"done", "raised"}
    /\ pc' = "idle"
    /\ attempt' = 0
    /\ last_sync' = None
    /\ wm_failed' = FALSE
    /\ total_issues' = 0
    /\ start_at' = 0
    /\ all_issues' = <<>>
    /\ polls' = 0
    /\ tr' = NoTransform
    /\ key_to_record_id' = EmptyDict
    /\ batch_at' = 0
    /\ submitted' = <<>>
    /\ lookup_failed' = {}
    /\ n0' = 0
    /\ table0' = <<>>
    /\ raised_by' = ""
    /\ rejects' = 0
    /\ link_writes' = 0
    /\ quiet' = FALSE
    /\ prev_quiet' = (pc = "done" /\ quiet)
    /\ UNCHANGED <<source, table, choices, patches, config, runs, faults, failed,
                   call>>

\* _fetch_updated_jira_issues, line 252: the watermark is read
ReadWatermark ==
    /\ pc = "watermark"
    /\ \E query_fails \in BOOLEAN :
          /\ query_fails => faults < MaxFaults /\ field_names["updated"] # NoName
          /\ last_sync' = GetMostRecentJiraUpdateTime(table, field_names["updated"],
                                                      query_fails)
          /\ wm_failed' = query_fails
          /\ faults' = IF query_fails THEN faults + 1 ELSE faults
    /\ total_issues' = 0
    /\ start_at' = 0
    /\ all_issues' = <<>>
    /\ polls' = 0
    /\ pc' = "count"
    /\ UNCHANGED <<source, table, choices, patches, config, runs, attempt,
                   write_locals, run_start, failed, run_log, call>>

\* a variant that, once the retries are used up, goes on with the pages
\* fetched so far instead of raising
FetchRaisesKeepsPages ==
    /\ IF attempt = RETRIES - 1
       THEN /\ pc' = "transform"
            /\ raised_by' = "fetch"
            /\ attempt' = attempt
       ELSE /\ pc' = "watermark"
            /\ raised_by' = raised_by
            /\ attempt' = attempt + 1
    /\ UNCHANGED <<source, table, choices, patches, config, runs, faults,
                   fetch_locals, write_locals, run_start, failed, rejects,
                   link_writes, quiet, prev_quiet, call>>

\* retry_with_backoff around _fetch_updated_jira_issues: a request of the
\* fetch raised in attempt i
FetchRaises ==
    /\ IF attempt = RETRIES - 1
       THEN /\ pc' = "raised"
            /\ raised_by' = "fetch"
            /\ attempt' = attempt
       ELSE /\ pc' = "watermark"
            /\ raised_by' = raised_by
            /\ attempt' = attempt + 1
    /\ UNCHANGED <<source, table, choices, patches, config, runs, faults,
                   fetch_locals, write_locals, run_start, failed, rejects, link_writes,
                   quiet, prev_quiet, call>>

\* line 269: the count query
CountQuery ==
    /\ pc = "count"
    /\ \/ /\ total_issues' = SearchTotal(jira, last_sync)
          /\ pc' = IF 0 < total_issues' THEN "page" ELSE "transform"
          /\ UNCHANGED <<source, table, choices, patches, config, runs, faults,
                         attempt, last_sync, wm_failed, start_at, all_issues,
                         polls,
                         write_locals, run_start, failed, run_log, call>>
       \/ FetchRaises

\* lines 281-294: the page request returns and the loop condition is tested
PageReturns ==
    LET batch == SearchIssues(jira, last_sync, start_at, max_results)
    IN /\ all_issues' = all_issues \o batch
       /\ start_at' = start_at + Len(batch)
       /\ polls' = (polls + 1) % 2
       /\ pc' = IF start_at' < total_issues THEN "page" ELSE "transform"
       /\ UNCHANGED <<source, table, choices, patches, config, runs, faults,
                      attempt, last_sync, wm_failed, total_issues,
                      write_locals, run_start, failed, run_log, call>>

\* lines 278-294: one iteration of the pagination loop
FetchPage ==
    /\ pc = "page"
    /\ \/ PageReturns
       \/ FetchRaises

\* lines 878-916: nothing fetched, or the transform loop
Transform ==
    /\ pc = "transform"
    /\ IF all_issues = <<>>
       THEN pc' = "done" /\ tr' = tr
       ELSE pc' = "match" /\ tr' = TransformIssues(all_issues, 1, NoTransform)
    /\ UNCHANGED <<source, table, choices, patches, config, runs, faults, attempt,
                   fetch_locals, key_to_record_id, batch_at, submitted,
                   lookup_failed, run_start, failed, run_log, call>>

\* for i in range(0, stop, step): range raises ValueError for step 0, and
\* has no element for a negative step or for stop 0
RangeLoop(stop, step) ==
    IF step = 0 THEN "raises"
    ELSE IF step > 0 /\ 0 < stop THEN "enters"
    ELSE "skips"

\* lines 919-924: the existing records are looked up and the write loop is
\* entered
Match ==
    /\ pc = "match"
    /\ LET jira_keys == SeqOfSet(tr.all_keys)
           queried == field_names["key"] # NoName
           chunks == 1 .. NumChunks(jira_keys, CHUNK_SIZE)
           unknown == queried /\ GetAirtableFieldId("key") \notin schema_ids
       IN \E failing \in SUBSET chunks :
             /\ failing # {} => queried
             /\ unknown => failing = chunks
             /\ ~unknown => faults + Cardinality(failing) <= MaxFaults
             /\ faults' = IF unknown THEN faults ELSE faults + Cardinality(failing)
             /\ key_to_record_id' =
                    GetExistingRecordIds(table, jira_keys, GetAirtableFieldId("key"),
                                         field_names["key"], failing)
             /\ lookup_failed' =
                    UNION {Range(Chunk(jira_keys, c, CHUNK_SIZE)) : c \in failing}
    /\ batch_at' = 0
    /\ LET loop == RangeLoop(Len(tr.transformed_issues), batch_size)
       IN /\ pc' = CASE loop = "raises" -> "raised"
                      [] loop = "enters" -> "write"
                      [] OTHER -> "done"
          /\ raised_by' = IF loop = "raises" THEN "write" ELSE raised_by
    /\ UNCHANGED <<source, table, choices, patches, config, runs, attempt,
                   fetch_locals, tr, submitted, run_start, failed, rejects,
                   link_writes, quiet, prev_quiet, call>>

\* the transformed issues of the write batch that starts after position i
IssuesInBatch(transformed_issues, i, size) ==
    LET last == Min(i + size, Len(transformed_issues))
    IN [j \in 1 .. (last - i) |-> transformed_issues[i + j][2]]

\* the transient faults that can hit the remote calls of one write batch
BatchFaults(tbl, chs, issues, existing_record_ids) ==
    LET split == SplitBatch(issues, existing_record_ids, 1, NoSplit)
        links == ParentUpdates(issues, existing_record_ids, 1, <<>>)
    IN {f \in [create : BOOLEAN,
               records : SUBSET DOMAIN split.records_to_create,
               update : BOOLEAN, link : BOOLEAN] :
          /\ f.create => split.records_to_create # <<>>
          /\ f.records # {} => ~BatchCreateOk(chs, split.records_to_create, f.create)
          /\ f.update => split.records_to_update # <<>>
          /\ f.link => links # <<>> /\ ~f.update}

FaultCount(f) ==
    (IF f.create THEN 1 ELSE 0) + Cardinality(f.records)
        + (IF f.update THEN 1 ELSE 0) + (IF f.link THEN 1 ELSE 0)

\* the write calls of one batch that the store refuses for an unknown option
SelectRejects(chs, split, f) ==
    LET bad_c == {i \in DOMAIN split.records_to_create :
                     ~StoreAccepts(chs, split.records_to_create[i])}
        bad_u == {i \in DOMAIN split.records_to_update :
                     ~StoreAccepts(chs, split.records_to_update[i].fields)}
    IN (IF bad_c # {} /\ ~f.create THEN 1 ELSE 0)
         + Cardinality(bad_c \ f.records)
         + (IF bad_u # {} /\ ~f.update THEN 1 ELSE 0)

\* the keys whose last write did not succeed, after one write batch with
\* result r
FailedAfter(old, r) ==
    LET key(fields) == fields["fldKey"]
        not_created == {key(r.created.failed_records[i]) :
                           i \in DOMAIN r.created.failed_records}
        created == {key(r.split.records_to_create[i]) :
                       i \in DOMAIN r.split.records_to_create} \ not_created
        to_update == {key(r.split.records_to_update[i].fields) :
                         i \in DOMAIN r.split.records_to_update}
    IN IF r.raised THEN ((old \ created) \cup not_created) \cup to_update
       ELSE ((old \ created) \ to_update) \cup not_created

\* the calls one batch hands to the store, creates first
Submissions(split) ==
    [i \in DOMAIN split.records_to_create |->
        [key |-> split.records_to_create[i]["fldKey"], op |-> "create",
         id |-> None]]
    \o [i \in DOMAIN split.records_to_update |->
        [key |-> split.records_to_update[i].fields["fldKey"], op |-> "update",
         id |-> split.records_to_update[i].id]]

\* lines 924-927: one iteration of the write loop, _process_issue_batch
WriteBatch ==
    /\ pc = "write"
    /\ LET issues == IssuesInBatch(tr.transformed_issues, batch_at, batch_size)
       IN \E f \in BatchFaults(table, choices, issues, key_to_record_id) :
             LET r == ProcessIssueBatch(table, choices, issues, key_to_record_id, f)
             IN /\ faults + FaultCount(f) <= MaxFaults
                /\ faults' = faults + FaultCount(f)
                /\ table' = r.table
                /\ failed' = FailedAfter(failed, r)
                /\ submitted' = submitted \o Submissions(r.split)
                /\ rejects' = rejects + SelectRejects(choices, r.split, f)
                /\ link_writes' = link_writes + r.link_writes
                /\ IF r.raised
                   THEN /\ pc' = "raised"
                        /\ raised_by' = "write"
                        /\ batch_at' = batch_at
                   ELSE /\ batch_at' = batch_at + batch_size
                        /\ pc' = IF batch_at' < Len(tr.transformed_issues)
                                 THEN "write" ELSE "done"
                        /\ raised_by' = raised_by
    /\ UNCHANGED <<source, choices, patches, config, runs, attempt, fetch_locals,
                   tr, key_to_record_id, lookup_failed, run_start, quiet,
                   prev_quiet, call>>

Next ==
    \/ JiraCreateIssue
    \/ JiraUpdateIssue
    \/ JiraDeleteIssue
    \/ StartRun
    \/ Return
    \/ ReadWatermark
    \/ CountQuery
    \/ FetchPage
    \/ Transform
    \/ Match
    \/ WriteBatch

Spec == Init /\ [][Next]_vars

\* ------------------------------------------------- the fetch phase alone
\* The fetch does not depend on how the writes are matched and batched: the
\* key lookup is configured and every run writes one batch.
InitFetch == Init /\ batch_size = 2 /\ field_names["key"] # NoName

SpecFetch == InitFetch /\ [][Next]_vars

\* ------------------------------------------------- the fetch keeps running
\* The process is not stopped inside the pagination loop: the next page
\* request is made and eventually returns, unless a request raises.  Nothing
\* is assumed about the source or about failures.
SpecLive == Init /\ [][Next]_vars /\ WF_vars(pc = "page" /\ PageReturns)

\* ------------------------------- issues with a field that cannot be read
\* an issue is created whose status field makes the extraction raise
JiraCreateUnreadable ==
    /\ SourceMayChange
    /\ NextKey \in Keys
    /\ \E parent \in {ParentAbsent, ParentNone} \cup {k \in Keys : jira[k].st = "live"} :
          jira' = [jira EXCEPT ![NextKey] =
                      [st |-> "live", updated |-> TimeOfEdit(edits + 1),
                       parent |-> parent, status |-> Unreadable]]
    /\ edits' = edits + 1
    /\ quiet' = FALSE
    /\ prev_quiet' = FALSE
    /\ UNCHANGED <<table, choices, patches, config, pc, runs, faults, attempt,
                   fetch_locals, write_locals, run_start, failed, run_counts, call>>

NextExtract == Next \/ JiraCreateUnreadable

SpecExtract == Init /\ [][NextExtract]_vars

\* ------------------------------------ tables that lack a mapped field
\* the table has every mapped field, or all of them but one
Schemas == {MappedFieldIds} \cup {MappedFieldIds \ {id} : id \in MappedFieldIds}

InitConfig ==
    /\ schema_ids \in Schemas
    /\ InitEngine

SpecConfig == InitConfig /\ [][Next]_vars

\* ------------------------------------- _batch_create_with_progress alone
\* a create payload: the key field and the select field of one issue
Payloads == {Put(Put(EmptyDict, "fldKey", k), "fldStatus", o) :
                k \in Keys, o \in Options}

PayloadLists == UNION {[1 .. n -> Payloads] : n \in 1 .. MaxPayloads}

InitCreate ==
    /\ Init
    /\ batch_size = 1
    /\ max_results = 1
    /\ field_names = PopulateFieldNames({}, TRUE)

\* the caller hands a list of payloads to the method
PrepareCreate ==
    /\ call.st = "none"
    /\ \E records \in PayloadLists :
          call' = [NoCall EXCEPT !.st = "ready", !.records = records]
    /\ UNCHANGED <<jira, edits, table, choices, patches, config, pc, runs, faults,
                   attempt, fetch_locals, write_locals, run_start, failed, run_log>>

\* the method runs; f says which of its calls fail for a transient reason
CallBatchCreate ==
    /\ call.st = "ready"
    /\ \E f \in [create : BOOLEAN, records : SUBSET DOMAIN call.records] :
          /\ f.records # {} => ~BatchCreateOk(choices, call.records, f.create)
          /\ LET r == BatchCreateWithProgress(table, choices, call.records,
                                              f.create, f.records)
             IN /\ table' = r.table
                /\ call' = [st |-> "returned", records |-> call.records,
                            created_count |-> r.created_count,
                            failed_records |-> r.failed_records,
                            raised |-> r.raised, refused |-> f.records]
    /\ UNCHANGED <<jira, edits, choices, patches, config, pc, runs, faults,
                   attempt, fetch_locals, write_locals, run_start, failed, run_log>>

NextCreate == PrepareCreate \/ CallBatchCreate

SpecCreate == InitCreate /\ [][NextCreate]_vars

\* --------------------------------------------- _process_field_value alone
PrimValues == {FieldValue("prim", {}, None, None, p, <<>>) : p \in 1 .. 2}

ObjValues == {FieldValue("obj", has, v, n, 1, <<>>) :
                 has \in SUBSET Attrs, v \in 0 .. 2, n \in 1 .. 2}

\* the elements of the lists explored
Elements == {FieldValue("prim", {}, None, None, 1, <<>>)}
              \cup {FieldValue("obj", has, 1, 2, 1, <<>>) :
                       has \in SUBSET {"value", "name"}}

ListValues == {FieldValue("list", {}, None, None, 1, items) :
                  items \in UNION {[1 .. n -> Elements] : n \in 0 .. MaxItems}}

FieldValues == PrimValues \cup ObjValues \cup ListValues

InitField == Init /\ batch_size = 1 /\ max_results = 1
                  /\ field_names = PopulateFieldNames({}, TRUE)

\* _get_issue_field_value has read a field that is not None
PrepareField ==
    /\ call.st = "none"
    /\ \E field \in FieldValues :
          call' = [st |-> "field", field |-> field, result |-> Scalar(None)]
    /\ UNCHANGED <<jira, edits, table, choices, patches, config, pc, runs, faults,
                   attempt, fetch_locals, write_locals, run_start, failed, run_log>>

\* line 441: return self._process_field_value(field)
CallProcessFieldValue ==
    /\ call.st = "field"
    /\ call' = [call EXCEPT !.st = "field_returned",
                            !.result = ProcessFieldValue(call.field)]
    /\ UNCHANGED <<jira, edits, table, choices, patches, config, pc, runs, faults,
                   attempt, fetch_locals, write_locals, run_start, failed, run_log>>

NextField == PrepareField \/ CallProcessFieldValue

SpecField == InitField /\ [][NextField]_vars

\* ----------------------------------------------- retry_with_backoff alone
\* what one invocation of the wrapped operation does: it returns the value v
\* (ok) or raises the exception v
Outcomes == [ok : BOOLEAN, v : 1 .. 3]

RECURSIVE Pow2(_)
Pow2(i) == IF i = 0 THEN 1 ELSE 2 * Pow2(i - 1)

\* a variant that swallows the exception of the last attempt and falls out
\* of the loop
RetryStepSwallowsLast(c, outcome) ==
    LET logged == [c EXCEPT !.log = Append(@, outcome)]
    IN IF outcome.ok
       THEN [logged EXCEPT !.st = "retry_returned", !.result = outcome.v]
       ELSE IF c.i = c.retries - 1
       THEN [logged EXCEPT !.st = "retry_returned", !.result = None]
       ELSE [logged EXCEPT !.i = @ + 1,
                           !.slept = Append(@, c.backoff * Pow2(c.i))]

\* a variant whose wait grows by one base interval per attempt
RetryStepLinearBackoff(c, outcome) ==
    LET logged == [c EXCEPT !.log = Append(@, outcome)]
    IN IF outcome.ok
       THEN [logged EXCEPT !.st = "retry_returned", !.result = outcome.v]
       ELSE IF c.i = c.retries - 1
       THEN [logged EXCEPT !.st = "retry_raised", !.result = outcome.v]
       ELSE [logged EXCEPT !.i = @ + 1,
                           !.slept = Append(@, c.backoff * (c.i + 1))]

\* one iteration of the loop of the wrapper: the call record c after the
\* invocation with index c.i had the given outcome
RetryStep(c, outcome) ==
    LET logged == [c EXCEPT !.log = Append(@, outcome)]
    IN IF outcome.ok
       THEN [logged EXCEPT !.st = "retry_returned", !.result = outcome.v]
       ELSE IF c.i = c.retries - 1
       THEN [logged EXCEPT !.st = "retry_raised", !.result = outcome.v]
       ELSE [logged EXCEPT !.i = @ + 1,
                           !.slept = Append(@, c.backoff * Pow2(c.i))]

InitRetry == Init /\ batch_size = 1 /\ max_results = 1
                  /\ field_names = PopulateFieldNames({}, TRUE)

\* a function decorated with retry_with_backoff(retries, backoff_in_seconds)
\* is called
CallWrapper ==
    /\ call.st = "none"
    /\ \E retries \in 1 .. MaxRetries, backoff \in 1 .. 2 :
          call' = [st |-> "retrying", retries |-> retries, backoff |-> backoff,
                   i |-> 0, log |-> <<>>, slept |-> <<>>, result |-> None]
    /\ UNCHANGED <<jira, edits, table, choices, patches, config, pc, runs, faults,
                   attempt, fetch_locals, write_locals, run_start, failed, run_log>>

\* lines 155-166: the wrapped operation is invoked once more
RetryAttempt ==
    /\ call.st = "retrying"
    /\ \E outcome \in Outcomes : call' = RetryStep(call, outcome)
    /\ UNCHANGED <<jira, edits, table, choices, patches, config, pc, runs, faults,
                   attempt, fetch_locals, write_locals, run_start, failed, run_log>>

NextRetry == CallWrapper \/ RetryAttempt

SpecRetry == InitRetry /\ [][NextRetry]_vars

\* -------------------------------------------------------------- properties
KeyOf(id) == Get(table[id].fields, "fldKey")

RecordsOf(k) == {id \in 1 .. Len(table) : KeyOf(id) = k}

FetchedKeys == {all_issues[a].key : a \in DOMAIN all_issues}

\* the parent field of record id holds exactly the list ids
ParentFieldIs(id, ids) ==
    /\ "fldParent" \in DOMAIN table[id].fields
    /\ table[id].fields["fldParent"] = ids

\* C1: when a run fetches a child and its parent and neither had a record
\* before the run, then after the run the record created for the child has
\* its parent field equal to the one-element list of the id of the record
\* created for the parent.
C1_SameRunParentLinked ==
    pc = "done" =>
        \A a, b \in DOMAIN all_issues :
            LET c == all_issues[a].key
                p == all_issues[b].key
            IN (/\ all_issues[a].parent = p
                /\ \A id \in 1 .. n0 : KeyOf(id) \notin {c, p})
               => \A i, j \in (n0 + 1) .. Len(table) :
                     (KeyOf(i) = c /\ KeyOf(j) = p) => ParentFieldIs(i, <<j>>)

\* C2: after complete runs the target table holds at most one record per
\* Jira issue key.
C2_AtMostOneRecordPerKey ==
    pc = "done" => \A k \in Keys : Cardinality(RecordsOf(k)) <= 1

\* C3: a second run in a row against an unchanged source creates no record:
\* the number of target records after it equals the number before it.
C3_SecondRunCreatesNothing ==
    (pc = "done" /\ prev_quiet /\ quiet /\ faults = 0) => Len(table) = n0

\* C4: from an empty target table and no watermark, a run whose writes all
\* succeed ends with exactly one target record per fetched issue, carrying
\* the issue's key in the key field.
C4_OneRecordPerFetchedIssue ==
    (pc = "done" /\ n0 = 0 /\ last_sync = None /\ faults = 0 /\ rejects = 0)
        => /\ \A k \in FetchedKeys : Cardinality(RecordsOf(k)) = 1
           /\ Len(table) = Cardinality(FetchedKeys)

\* C5: when a fetched child has a parent that is not fetched in this run and
\* already has a record, then after the run the child's record has its parent
\* field equal to the one-element list of the id of the parent's record.
C5_ExistingParentLinked ==
    pc = "done" =>
        \A a \in DOMAIN all_issues :
            LET c == all_issues[a].key
                p == all_issues[a].parent
            IN (/\ p \in Keys
                /\ p \notin FetchedKeys
                /\ \E j \in 1 .. n0 : KeyOf(j) = p)
               => \A i \in RecordsOf(c) :
                     \E j \in 1 .. n0 : KeyOf(j) = p /\ ParentFieldIs(i, <<j>>)

\* the payloads of records at the positions pos, in order
RECURSIVE PayloadsAt(_, _, _)
PayloadsAt(records, pos, n) ==
    IF n > Len(records) THEN <<>>
    ELSE (IF n \in pos THEN <<records[n]>> ELSE <<>>)
             \o PayloadsAt(records, pos, n + 1)

\* the positions of the payloads the store refuses in the returned call
RefusedPositions ==
    {i \in DOMAIN call.records :
        ~StoreAccepts(choices, call.records[i]) \/ i \in call.refused}

\* C6: for a batch in which the store refuses some payloads and accepts the
\* others, _batch_create_with_progress returns without raising, its created
\* count is the number of accepted payloads and its failed list holds exactly
\* the refused payloads.
C6_PartialCreateReported ==
    (call.st = "returned" /\ RefusedPositions # {}) =>
        /\ ~call.raised
        /\ call.created_count = Len(call.records) - Cardinality(RefusedPositions)
        /\ call.failed_records = PayloadsAt(call.records, RefusedPositions, 1)

\* C6 happens: three payloads, one refused for its option, two created
C6_Witness ==
    /\ call.st = "returned"
    /\ Len(call.records) = 3
    /\ call.refused = {}
    /\ Cardinality(RefusedPositions) = 1
    /\ call.created_count = 2
    /\ Len(call.failed_records) = 1
    /\ Len(table) = 2

\* C7: a failed create or update of one write batch does not keep the later
\* batches from being written: when the run has ended, every batch of the
\* transformed issues has been submitted.
C7_LaterBatchesSubmitted ==
    (pc \in {"done", "raised"} /\ raised_by # "fetch"
        /\ Len(tr.transformed_issues) > 0)
        => (IF pc = "done" THEN batch_at ELSE batch_at + batch_size)
               >= Len(tr.transformed_issues)

\* C8: when a write is refused because the select field lacks the written
\* option, the writer patches the schema with that option (and retries).
C8_RefusedOptionIsPatched ==
    (pc \in {"done", "raised"} /\ rejects > 0) => patches > 0

\* C9: a failed watermark read aborts the run before any issue is fetched; it
\* is never answered with "no watermark", so the run does not go on to fetch
\* and process issues.
C9_FailedWatermarkAborts ==
    wm_failed => /\ all_issues = <<>>
                 /\ pc \notin {"transform", "match", "write", "done"}

\* C10: the number of issues returned by the fetch equals the total read by
\* the count query, also when the matching issues change between requests.
C10_FetchedCountIsTotal ==
    pc \in {"transform", "match", "write", "done"}
        => Len(all_issues) = total_issues

\* C11: when a count or page request has failed in every attempt of the
\* fetch, sync_issues raises and the target table is what it was when the run
\* started: nothing is created or updated, and the issues of the pages
\* fetched before the failure are not written.
C11_FailedFetchWritesNothing ==
    raised_by = "fetch" => pc = "raised" /\ table = table0

\* C11 happens: the last attempt fetched a page and failed on the next one,
\* while the target table already held a record
C11_Witness ==
    /\ pc = "raised"
    /\ raised_by = "fetch"
    /\ attempt = RETRIES - 1
    /\ Len(all_issues) > 0
    /\ start_at < total_issues
    /\ Len(table0) > 0

\* C12: when a mapped airtable_field_id is absent from the table schema, the
\* engine fails with a configuration error before any issue is fetched and
\* before any record is written: no run fetches an issue or writes a record.
C12_MissingFieldIdStopsEngine ==
    ~(MappedFieldIds \subseteq schema_ids)
        => all_issues = <<>> /\ table = <<>>

\* C13: for a field value that is not a plain str/int/float/bool and has both
\* a value attribute and a name attribute, _process_field_value returns the
\* value attribute.
C13_ValueBeforeName ==
    (/\ call.st = "field_returned"
     /\ call.field.kind # "prim"
     /\ {"value", "name"} \subseteq call.field.has)
        => call.result = Scalar(call.field.value)

\* C13 happens: an object whose value and name differ came back as its value
C13_Witness ==
    /\ call.st = "field_returned"
    /\ call.field.kind = "obj"
    /\ {"value", "name"} \subseteq call.field.has
    /\ call.field.value # call.field.name
    /\ call.field.value # None
    /\ call.result.v = call.field.value

\* the payloads the transform of this run produced for issue key k
PayloadsOf(k) ==
    {tr.transformed_issues[t][2] : t \in {u \in DOMAIN tr.transformed_issues :
                                            tr.transformed_issues[u][1] = k}}

\* C14: when the extraction of one mapped field of an issue raises, the field
\* is left out of the issue's payload, the other mapped fields are extracted,
\* and the issue is written: the transform yields a payload for it with the
\* key and the updated time and without the unreadable field, and a run that
\* completes without a failing remote call leaves a record for the issue.
C14_UnreadableFieldOmitted ==
    \A a \in DOMAIN all_issues :
        all_issues[a].status = Unreadable =>
            /\ pc \in {"match", "write", "done"} =>
                  /\ PayloadsOf(all_issues[a].key) # {}
                  /\ \A data \in PayloadsOf(all_issues[a].key) :
                        /\ "fldStatus" \notin DOMAIN data
                        /\ Get(data, "fldKey") = all_issues[a].key
                        /\ "fldUpdated" \in DOMAIN data
            /\ (pc = "done" /\ faults = 0) => RecordsOf(all_issues[a].key) # {}

\* C16: a call under retry_with_backoff(retries = n) invokes the wrapped
\* operation at most n times; it stops at the first invocation that returns
\* and yields its result; when all n invocations raise it raises the
\* exception of the n-th.
C16_RetryContract ==
    call.st \in {"retrying", "retry_returned", "retry_raised"} =>
        LET n == call.retries
            log == call.log
        IN /\ Len(log) <= n
           /\ \A j \in 1 .. Len(log) - 1 : ~log[j].ok
           /\ call.st = "retrying" => Len(log) < n /\ \A j \in DOMAIN log : ~log[j].ok
           /\ call.st = "retry_returned" =>
                 /\ Len(log) >= 1
                 /\ log[Len(log)].ok
                 /\ call.result = log[Len(log)].v
           /\ call.st = "retry_raised" =>
                 /\ Len(log) = n
                 /\ ~log[n].ok
                 /\ call.result = log[n].v

\* C16 happens: with n = 3 all three invocations raised, the third with an
\* exception other than the first two, and the call raised the third's
C16_Witness ==
    /\ call.st = "retry_raised"
    /\ call.retries = 3
    /\ Len(call.log) = 3
    /\ call.log[1].v # call.log[3].v
    /\ call.log[2].v # call.log[3].v
    /\ call.result = call.log[3].v

\* C17: every remote call of a run is made under the retry policy: a failing
\* call is attempted RETRIES times before its failure is acted on.  For the
\* batch update: when a run raises out of the write loop because the update
\* call failed for a transient reason, that call has failed RETRIES times.
C17_FailedUpdateWasRetried ==
    (pc = "raised" /\ raised_by = "write" /\ rejects = 0) => faults >= RETRIES

\* lambda_handler: the status code returned for a run that ended at p
StatusCode(p) == IF p = "raised" THEN 500 ELSE 200

\* C18: sync_issues raises, and lambda_handler answers 500 instead of 200,
\* only when the fetch phase failed after its retries (the configuration
\* being valid); a failed create, update or parent-link batch never makes
\* the run raise.
C18_OnlyFetchFailureRaises ==
    (pc \in {"done", "raised"} /\ StatusCode(pc) = 500) => raised_by = "fetch"

\* C19: an issue whose create or update failed and has not succeeded since
\* is fetched again by the next run: the watermark a run reads is never
\* later than the updated time of such an issue.
C19_WatermarkNotPastFailedIssue ==
    (pc = "count" /\ ~wm_failed /\ last_sync # None) =>
        \A k \in failed : jira[k].st = "live" => last_sync <= jira[k].updated

\* C20: the pagination loop of _fetch_updated_jira_issues terminates for
\* every behaviour of the source: a fetch that is in the loop eventually
\* leaves it, also when a page comes back empty while start_at is below the
\* total read at the start.
C20_PaginationTerminates == (pc = "page") ~> (pc # "page")

\* C21: one call of _batch_create_with_progress creates at most one target
\* record per payload, also when table.batch_create raises after the store
\* has accepted part of the batch and the payloads are created one by one.
C21_AtMostOneRecordPerPayload ==
    call.st = "returned" => Len(table) <= Len(call.records)


\* the batch sizes SyncConfig.validate lets through: validate skips the
\* batch_size entry, so it is whatever int(os.getenv('BATCH_SIZE', '50')) gave
AcceptedBatchSizes == {-1, 0, 1, 2}

InitBatch ==
    /\ schema_ids = MappedFieldIds
    /\ batch_size \in AcceptedBatchSizes
    /\ InitState

SpecBatch == InitBatch /\ [][Next]_vars

\* the positions of the transformed issues with key k
TransformedAt(k) ==
    {t \in DOMAIN tr.transformed_issues : tr.transformed_issues[t][1] = k}

\* the positions of the submissions for key k
SubmittedAt(k) == {u \in DOMAIN submitted : submitted[u].key = k}

\* C22: in a run of sync_issues each transformed issue is submitted to the
\* store exactly once in the first pass, as an update addressed to the matched
\* record id when the matcher returned an id for its key and as a create
\* otherwise; none is submitted twice and none is dropped, for every batch
\* size SyncConfig.validate accepts.
C22_EachIssueSubmittedOnce ==
    pc = "done" =>
        \A k \in Keys :
            /\ Cardinality(SubmittedAt(k)) = Cardinality(TransformedAt(k))
            /\ \A u \in SubmittedAt(k) :
                  IF k \in DOMAIN key_to_record_id /\ key_to_record_id[k] # None
                  THEN submitted[u].op = "update"
                       /\ submitted[u].id = key_to_record_id[k]
                  ELSE submitted[u].op = "create"


\* C23: an issue whose fields.parent is present but None is handled like an
\* issue without a parent: _extract_parent_key returns None for it, as
\* _get_issue_field_value(issue, 'parent') does, and sync_issues transforms
\* and keeps the issue instead of recording it as a transform error.
C23_NoneParentIsNoParent ==
    \A a \in DOMAIN all_issues :
        (all_issues[a].parent = ParentNone /\ pc \in {"match", "write", "done"})
            => /\ ~ExtractParentKey(all_issues[a]).raised
               /\ ExtractParentKey(all_issues[a]).value
                      = GetIssueFieldValue(all_issues[a], "parent")
               /\ all_issues[a].key \notin Range(tr.transform_errors)
               /\ PayloadsOf(all_issues[a].key) # {}


\* the key field of the record id as it was when the run started
KeyOf0(id) == Get(table0[id].fields, "fldKey")

\* C24: a run of sync_issues never deletes a target record, and it changes no
\* field of a target record whose issue key is not among the issues fetched
\* in that run: every record the table held when the run started is still
\* there, and unchanged unless its key was fetched.
C24_OtherRecordsUntouched ==
    pc # "idle" =>
        /\ Len(table) >= Len(table0)
        /\ \A id \in DOMAIN table0 :
              KeyOf0(id) \notin FetchedKeys => table[id] = table0[id]

\* C24 happens: a completed run has updated the record of an issue it fetched
\* while the table also held a record of an issue that the run did not fetch
C24_Witness ==
    /\ pc = "done"
    /\ \E id \in DOMAIN table0 : KeyOf0(id) \notin FetchedKeys
    /\ \E u \in DOMAIN submitted :
          submitted[u].op = "update" /\ submitted[u].id \in DOMAIN table0


\* C25: when the match query for a chunk of keys fails, none of the keys of
\* that chunk is treated as absent from the target store: no create is issued
\* in that run for a key whose match query failed.
C25_NoCreateAfterFailedMatch ==
    \A u \in DOMAIN submitted :
        submitted[u].op = "create" => submitted[u].key \notin lookup_failed


\* the values of the updated field the records of the table hold
UpdatedValues == {Get(table[id].fields, "fldUpdated") : id \in DOMAIN table} \ {None}

\* C26: _get_most_recent_jira_update_time returns the greatest value of the
\* mapped updated field among all target records, and None when the table is
\* empty or when no updated field mapping is available.
C26_WatermarkIsGreatestUpdated ==
    pc \in {"count", "page"} =>
        IF UpdatedValues = {} \/ field_names["updated"] = NoName
        THEN last_sync = None
        ELSE /\ last_sync \in UpdatedValues
             /\ \A v \in UpdatedValues : last_sync >= v


\* ------------------------------------------------- the query on its own
MaxStamp == 9

\* what the updated field of the top record can hold: nothing, a text that is
\* no ISO timestamp, or a timestamp (times start at the first full minute)
Watermarks == {None, Unparsable} \cup TicksPerMinute .. MaxStamp

\* JIRA_JQL_FILTER
JqlFilters == {"", "status = Open", "labels = sync"}

ProjectKeys == {"A", "B"}

InitJql == Init /\ batch_size = 1 /\ max_results = 1
                /\ field_names = PopulateFieldNames({}, TRUE)

\* lines 252-253: the watermark and the extra filter have been read
PrepareJql ==
    /\ call.st = "none"
    /\ \E k \in ProjectKeys, w \in Watermarks, f \in JqlFilters :
          call' = [st |-> "jql", jira_project_key |-> k, last_sync |-> w,
                   jql_filter |-> f, jql |-> <<>>]
    /\ UNCHANGED <<jira, edits, table, choices, patches, config, pc, runs, faults,
                   attempt, fetch_locals, write_locals, run_start, failed, run_log>>

\* lines 255-264: the query is built
CallBuildJql ==
    /\ call.st = "jql"
    /\ call' = [call EXCEPT !.st = "jql_built",
                            !.jql = BuildJql(call.jira_project_key,
                                             call.last_sync, call.jql_filter)]
    /\ UNCHANGED <<jira, edits, table, choices, patches, config, pc, runs, faults,
                   attempt, fetch_locals, write_locals, run_start, failed, run_log>>

NextJql == PrepareJql \/ CallBuildJql

SpecJql == InitJql /\ [][NextJql]_vars

\* the parts of the query q, in order
PartsOf(q) == [x \in DOMAIN q |-> q[x].part]

\* C27: the JQL built by _fetch_updated_jira_issues is the base filter
\* 'project = <key>', then an 'updated >' clause exactly when a watermark
\* exists, then the extra filter exactly when JIRA_JQL_FILTER is not empty,
\* then 'ORDER BY key ASC'; and whenever the updated clause is present it
\* carries a timestamp formatted to minute precision.
C27_JqlWellFormed ==
    call.st = "jql_built" =>
        /\ PartsOf(call.jql) =
               <<"project">>
               \o (IF call.last_sync # None THEN <<"updated">> ELSE <<>>)
               \o (IF call.jql_filter # "" THEN <<"filter">> ELSE <<>>)
               \o <<"order">>
        /\ call.jql[1].arg = call.jira_project_key
        /\ \A x \in DOMAIN call.jql :
              /\ call.jql[x].part = "filter" => call.jql[x].arg = call.jql_filter
              /\ call.jql[x].part = "updated" =>
                    /\ call.jql[x].arg # None
                    /\ call.jql[x].arg % TicksPerMinute = 0
                    /\ call.jql[x].arg <= call.last_sync
                    /\ call.last_sync < call.jql[x].arg + TicksPerMinute


\* the rule of C28 applied to one element
PerElement(item) ==
    IF HasAttr(item, "value") THEN item.value
    ELSE IF HasAttr(item, "name") THEN item.name
    ELSE Elem(item)

\* C28: for a list-valued field _process_field_value maps each element by the
\* same rule, decided per element: the element's value attribute if it has
\* one, else its name attribute if it has one, else the element itself.
C28_ListMappedPerElement ==
    (/\ call.st = "field_returned"
     /\ call.field.kind = "list"
     /\ call.field.items # <<>>)
        => call.result =
               ListOf([x \in DOMAIN call.field.items |->
                          PerElement(call.field.items[x])])


\* ------------------------------------------- the conversion on its own
\* the issue objects a search can return
IssueObjects ==
    [key : Keys,
     updated : TicksPerMinute .. TicksPerMinute + 1,
     parent : {ParentAbsent, ParentNone} \cup Keys,
     status : Options \cup {Unreadable}]

\* the mapping entries that carry the optional flag "skip": true next to
\* their airtable_field_id
SkipFlagged == SUBSET {"status"}

InitConvert == Init /\ batch_size = 1 /\ max_results = 1
                    /\ field_names = PopulateFieldNames({}, TRUE)

\* line 896: sync_issues has an issue to convert
PrepareConvert ==
    /\ call.st = "none"
    /\ \E issue \in IssueObjects, skip \in SkipFlagged :
          call' = [st |-> "convert", issue |-> issue, skip |-> skip,
                   data |-> EmptyDict]
    /\ UNCHANGED <<jira, edits, table, choices, patches, config, pc, runs, faults,
                   attempt, fetch_locals, write_locals, run_start, failed, run_log>>

\* data = self._convert_issue_to_record(issue)
CallConvertIssueToRecord ==
    /\ call.st = "convert"
    /\ call' = [call EXCEPT !.st = "converted",
                            !.data = ConvertIssueToRecord(call.issue)]
    /\ UNCHANGED <<jira, edits, table, choices, patches, config, pc, runs, faults,
                   attempt, fetch_locals, write_locals, run_start, failed, run_log>>

NextConvert == PrepareConvert \/ CallConvertIssueToRecord

SpecConvert == InitConvert /\ [][NextConvert]_vars

\* the mapped Jira fields other than parent whose extraction yields a value
ExtractedFields(issue) ==
    {jf \in Range(JiraFields) \ {"parent"} : GetIssueFieldValue(issue, jf) # None}

\* C29: the payload _convert_issue_to_record builds for an issue object
\* contains exactly the target field ids of the mapped fields, other than
\* parent, whose extracted value is not None, each with its extracted value;
\* it never contains the parent field id.
C29_PayloadIsExtractedFields ==
    call.st = "converted" =>
        /\ DOMAIN call.data = {FieldIds[jf] : jf \in ExtractedFields(call.issue)}
        /\ \A jf \in ExtractedFields(call.issue) :
              call.data[FieldIds[jf]] = GetIssueFieldValue(call.issue, jf)
        /\ FieldIds["parent"] \notin DOMAIN call.data

\* C29 happens: an issue with a parent and an unreadable status was converted
\* to a payload of its key and its updated time only
C29_Witness ==
    /\ call.st = "converted"
    /\ call.issue.parent \in Keys
    /\ call.issue.status = Unreadable
    /\ DOMAIN call.data = {"fldKey", "fldUpdated"}
    /\ call.data["fldKey"] = call.issue.key
    /\ call.data["fldUpdated"] = call.issue.updated

\* C30: a field-mapping entry flagged as skip is never extracted, and its
\* target field id never appears in a payload.
C30_SkippedFieldNotInPayload ==
    call.st = "converted" =>
        \A jf \in call.skip : FieldIds[jf] \notin DOMAIN call.data


\* ------------------------------------------------ the matcher on its own
MaxRecords == 2

MaxOver == 1

\* the lengths of the key list: short lists and lists around one and two
\* full chunks
KeyCounts == {0, 1} \cup (CHUNK_SIZE - 1 .. CHUNK_SIZE + MaxOver)
                    \cup (2 * CHUNK_SIZE .. 2 * CHUNK_SIZE + MaxOver)

\* list(all_keys): n distinct keys, in ascending or in descending order
KeyList(n, descending) ==
    [x \in 1 .. n |-> IF descending THEN n + 1 - x ELSE x]

\* the keys the records of the table carry; None: a record without a key
RecordKeys == {None, 1, CHUNK_SIZE, CHUNK_SIZE + 1, 2 * CHUNK_SIZE + 1}

KeyRecord(k) ==
    Row(IF k = None THEN Put(EmptyDict, "fldStatus", 1)
        ELSE Put(EmptyDict, "fldKey", k))

Tables == UNION {[1 .. n -> {KeyRecord(k) : k \in RecordKeys}] :
                    n \in 0 .. MaxRecords}

InitLookup == Init /\ batch_size = 1 /\ max_results = 1

\* line 919: sync_issues asks for the records of a list of keys
PrepareLookup ==
    /\ call.st = "none"
    /\ \E n \in KeyCounts, descending \in BOOLEAN, tbl \in Tables :
          /\ descending => n > 1
          /\ table' = tbl
          /\ call' = [st |-> "lookup", jira_keys |-> KeyList(n, descending),
                      tbl0 |-> tbl, failing |-> {}, queries |-> <<>>,
                      result |-> EmptyDict]
    /\ UNCHANGED <<jira, edits, choices, patches, config, pc, runs, faults,
                   attempt, fetch_locals, write_locals, run_start, failed, run_log>>

\* key_to_record_id = self._get_existing_record_ids(list(all_keys))
CallGetExistingRecordIds ==
    /\ call.st = "lookup"
    /\ LET queries == LookupQueries(call.jira_keys, GetAirtableFieldId("key"),
                                    field_names["key"])
       IN \E failing \in SUBSET DOMAIN queries :
             call' = [call EXCEPT
                        !.st = "lookup_returned",
                        !.failing = failing,
                        !.queries = queries,
                        !.result = GetExistingRecordIds(table, call.jira_keys,
                                       GetAirtableFieldId("key"),
                                       field_names["key"], failing)]
    /\ UNCHANGED <<jira, edits, table, choices, patches, config, pc, runs, faults,
                   attempt, fetch_locals, write_locals, run_start, failed, run_log>>

NextLookup == PrepareLookup \/ CallGetExistingRecordIds

SpecLookup == InitLookup /\ [][NextLookup]_vars

\* the chunks qs laid end to end
RECURSIVE Flatten(_)
Flatten(qs) == IF qs = <<>> THEN <<>> ELSE Head(qs) \o Flatten(Tail(qs))

\* the ids of the records of the table that carry key k
IdsOfKey(k) == {id \in DOMAIN table : KeyOf(id) = k}

\* C31: _get_existing_record_ids splits the key list into consecutive chunks
\* of at most CHUNK_SIZE keys with every key in exactly one chunk, issues
\* exactly one query per chunk, and, when all queries succeed, returns a map
\* that holds for each key with a target record the id of a record carrying
\* that key and no entry for a key without a target record.
C31_ChunkedLookupComplete ==
    call.st = "lookup_returned" =>
        /\ Flatten(call.queries) = call.jira_keys
        /\ \A c \in DOMAIN call.queries :
              /\ Len(call.queries[c]) >= 1
              /\ Len(call.queries[c]) <= CHUNK_SIZE
              /\ c < Len(call.queries) => Len(call.queries[c]) = CHUNK_SIZE
        /\ call.failing = {} =>
              /\ DOMAIN call.result \subseteq Range(call.jira_keys)
              /\ \A k \in Range(call.jira_keys) :
                    IF IdsOfKey(k) # {}
                    THEN k \in DOMAIN call.result /\ call.result[k] \in IdsOfKey(k)
                    ELSE k \notin DOMAIN call.result


\* the chunks of the returned lookup whose query returned records
Answered == DOMAIN call.queries \ call.failing

\* the keys the answered queries asked for
SeenKeys == UNION {Range(call.queries[c]) : c \in Answered}

\* C32: when two target records carry the same issue key,
\* _get_existing_record_ids maps the key to the id of the record seen last in
\* query order, and the lookup deletes or modifies neither record.
C32_LastDuplicateWins ==
    call.st = "lookup_returned" =>
        /\ table = call.tbl0
        /\ \A k \in SeenKeys :
              Cardinality(IdsOfKey(k)) >= 2 =>
                 /\ k \in DOMAIN call.result
                 /\ call.result[k] \in IdsOfKey(k)
                 /\ \A id \in IdsOfKey(k) : id <= call.result[k]

\* C32 happens: the first two records of the table carry a key of the second
\* chunk, the query of that chunk returned them and the key is mapped to the
\* second one
C32_Witness ==
    /\ call.st = "lookup_returned"
    /\ Len(table) = 2
    /\ IdsOfKey(CHUNK_SIZE + 1) = {1, 2}
    /\ 2 \in Answered
    /\ CHUNK_SIZE + 1 \in Range(call.queries[2])
    /\ call.result[CHUNK_SIZE + 1] = 2
    /\ table = call.tbl0


\* -------------------------------------------- the second pass on its own
MaxLinkIssues == 2

\* the issues the method accepts: dictionaries keyed by field id, with or
\* without a key and with or without an entry 'parent', and issue objects
LinkDicts ==
    {Put(EmptyDict, "fldStatus", 1)}
        \cup {Put(EmptyDict, "fldKey", k) : k \in Keys}
        \cup {Put(Put(EmptyDict, "fldKey", k), "parent", p) : k \in Keys, p \in Keys}

LinkObjects ==
    [key : Keys, updated : {TicksPerMinute},
     parent : {ParentAbsent, ParentNone} \cup Keys, status : {1}]

LinkIssueLists ==
    UNION {[1 .. n -> LinkDicts \cup LinkObjects] : n \in 1 .. MaxLinkIssues}

\* a table with one record per key, the record of key k at position k
LinkTable == [k \in Keys |-> KeyRecord(k)]

\* the maps the matcher can have returned for that table
LinkRecordIds == UNION {[found -> Keys] : found \in SUBSET Keys}

InitLink == Init /\ batch_size = 1 /\ max_results = 1
                 /\ field_names = PopulateFieldNames({"key"}, TRUE)

\* line 766: _process_issue_batch has written its batch
PrepareLink ==
    /\ call.st = "none"
    /\ \E issues \in LinkIssueLists, ids \in LinkRecordIds :
          /\ \A k \in DOMAIN ids : ids[k] = k
          /\ table' = LinkTable
          /\ call' = [st |-> "link", issues |-> issues,
                      existing_record_ids |-> ids, tbl0 |-> LinkTable,
                      fault |-> FALSE, raised |-> FALSE, link_writes |-> 0,
                      parent_updates |-> <<>>]
    /\ UNCHANGED <<jira, edits, choices, patches, config, pc, runs, faults,
                   attempt, fetch_locals, write_locals, run_start, failed, run_log>>

\* self._update_parent_relationships(issues, existing_record_ids)
CallUpdateParentRelationships ==
    /\ call.st = "link"
    /\ \E fault \in BOOLEAN :
          LET p == UpdateParentRelationships(table, choices, call.issues,
                                             call.existing_record_ids, fault)
          IN /\ fault => p.link_writes > 0
             /\ table' = p.table
             /\ call' = [call EXCEPT !.st = "link_returned",
                                     !.fault = fault,
                                     !.raised = p.raised,
                                     !.link_writes = p.link_writes,
                                     !.parent_updates = p.parent_updates]
    /\ UNCHANGED <<jira, edits, choices, patches, config, pc, runs, faults,
                   attempt, fetch_locals, write_locals, run_start, failed, run_log>>

NextLink == PrepareLink \/ CallUpdateParentRelationships

SpecLink == InitLink /\ [][NextLink]_vars

\* the key and the parent key an issue of the list carries, None if none
IssueKeyOf(issue) ==
    IF "key" \in DOMAIN issue THEN issue.key ELSE Get(issue, "fldKey")

ParentKeyOf(issue) ==
    IF "key" \in DOMAIN issue
    THEN (IF issue.parent \in Keys THEN issue.parent ELSE None)
    ELSE Get(issue, "parent")

\* the positions of the issues of the call whose key and parent key both
\* have a record id
Resolved ==
    {n \in DOMAIN call.issues :
        /\ IssueKeyOf(call.issues[n]) \in DOMAIN call.existing_record_ids
        /\ ParentKeyOf(call.issues[n]) \in DOMAIN call.existing_record_ids}

\* the link update for the issue at position n
LinkUpdateOf(n) ==
    [id |-> call.existing_record_ids[IssueKeyOf(call.issues[n])],
     fields |-> Put(EmptyDict, "fldParent",
                    <<call.existing_record_ids[ParentKeyOf(call.issues[n])]>>)]

\* C33: _update_parent_relationships writes a link update only for issues
\* whose own key and whose parent key both resolve to a record id; an issue
\* whose child id or parent id is unresolved produces no update, is not
\* retried (the updates go out in at most one call), and never makes the
\* call raise.
C33_OnlyResolvedLinksWritten ==
    call.st = "link_returned" =>
        /\ \A u \in DOMAIN call.parent_updates :
              \E n \in Resolved : call.parent_updates[u] = LinkUpdateOf(n)
        /\ Len(call.parent_updates) <= Cardinality(Resolved)
        /\ call.link_writes = IF call.parent_updates = <<>> THEN 0 ELSE 1
        /\ call.raised =>
              \E n \in DOMAIN call.issues :
                  /\ "key" \in DOMAIN call.issues[n]
                  /\ call.issues[n].parent = ParentNone
        /\ (call.parent_updates = <<>> \/ call.fault) => table = call.tbl0
        /\ \A id \in DOMAIN table :
              table[id] # call.tbl0[id] =>
                 \E n \in Resolved : LinkUpdateOf(n).id = id

\* C33 happens: of two issues with a parent the first has no record for its
\* parent and the second has both records; the call returned with one
\* update, the link of the second, and the table holds it
C33_Witness ==
    /\ call.st = "link_returned"
    /\ ~call.raised
    /\ Len(call.issues) = 2
    /\ ParentKeyOf(call.issues[1]) \in Keys \ DOMAIN call.existing_record_ids
    /\ Resolved = {2}
    /\ call.parent_updates = <<LinkUpdateOf(2)>>
    /\ ParentFieldIs(LinkUpdateOf(2).id,
                     <<call.existing_record_ids[ParentKeyOf(call.issues[2])]>>)


\* --------------------------------------- the status change time on its own
MaxHistories == 2

MaxCreated == 3

\* the fields of the items of one changelog history
ItemLists == {<<>>, <<"status">>, <<"assignee">>, <<"assignee", "status">>,
              <<"status", "status">>}

Histories == [created : 1 .. MaxCreated, items : ItemLists]

\* issue.changelog.histories, in any order
Changelogs == UNION {[1 .. n -> Histories] : n \in 0 .. MaxHistories}

\* the created time of history h once for each of its status items
RECURSIVE StatusItems(_, _)
StatusItems(h, n) ==
    IF n > Len(h.items) THEN <<>>
    ELSE (IF h.items[n] = "status" THEN <<h.created>> ELSE <<>>)
             \o StatusItems(h, n + 1)

\* lines 477-481: the list comprehension over histories and items
RECURSIVE StatusChanges(_, _)
StatusChanges(histories, n) ==
    IF n > Len(histories) THEN <<>>
    ELSE StatusItems(histories[n], 1) \o StatusChanges(histories, n + 1)

\* a variant that takes the last status change listed, without sorting
GetStatusUpdatedValueLastListed(has_changelog, histories) ==
    IF ~has_changelog THEN None
    ELSE LET status_changes == StatusChanges(histories, 1)
         IN IF status_changes # <<>>
            THEN status_changes[Len(status_changes)]
            ELSE None

\* _get_status_updated_value
GetStatusUpdatedValue(has_changelog, histories) ==
    IF ~has_changelog THEN None
    ELSE LET status_changes == StatusChanges(histories, 1)
             sorted == SortSeq(status_changes, LAMBDA a, b : a < b)
         IN IF status_changes # <<>> THEN sorted[Len(sorted)] ELSE None

InitStatus == Init /\ batch_size = 1 /\ max_results = 1
                   /\ field_names = PopulateFieldNames({}, TRUE)

\* line 421-422: the mapped field is status_updated
PrepareStatus ==
    /\ call.st = "none"
    /\ \E has_changelog \in BOOLEAN, histories \in Changelogs :
          /\ ~has_changelog => histories = <<>>
          /\ call' = [st |-> "status", has_changelog |-> has_changelog,
                      histories |-> histories, result |-> None]
    /\ UNCHANGED <<jira, edits, table, choices, patches, config, pc, runs, faults,
                   attempt, fetch_locals, write_locals, run_start, failed, run_log>>

\* return self._get_status_updated_value(issue)
CallGetStatusUpdatedValue ==
    /\ call.st = "status"
    /\ call' = [call EXCEPT !.st = "status_returned",
                            !.result = GetStatusUpdatedValue(call.has_changelog,
                                                             call.histories)]
    /\ UNCHANGED <<jira, edits, table, choices, patches, config, pc, runs, faults,
                   attempt, fetch_locals, write_locals, run_start, failed, run_log>>

NextStatus == PrepareStatus \/ CallGetStatusUpdatedValue

SpecStatus == InitStatus /\ [][NextStatus]_vars

\* the created times of the histories of the call that hold a status item
StatusTimes ==
    {call.histories[n].created :
        n \in {m \in DOMAIN call.histories :
                  "status" \in Range(call.histories[m].items)}}

\* C34: _get_status_updated_value returns the maximum created timestamp over
\* all changelog items whose field is status, whatever the order of the
\* histories, and None when the changelog has no status item.
C34_LatestStatusChange ==
    call.st = "status_returned" =>
        IF StatusTimes = {} THEN call.result = None
        ELSE /\ call.result \in StatusTimes
             /\ \A t \in StatusTimes : t <= call.result

\* C34 happens: the changelog lists the later status change first and the
\* call returned its time
C34_Witness ==
    /\ call.st = "status_returned"
    /\ Len(call.histories) = 2
    /\ "status" \in Range(call.histories[1].items)
    /\ "status" \in Range(call.histories[2].items)
    /\ call.histories[1].created > call.histories[2].created
    /\ call.result = call.histories[1].created


\* ------------------------------------------- add_select_option on its own
MaxSchemaFaults == 2

\* the fields of the table schema: name -> type and choices (names in order)
SelectTypes == {"singleSelect", "multipleSelects"}

SchemaOf(status_choices) ==
    [Status |-> [type |-> "singleSelect", choices |-> status_choices],
     Labels |-> [type |-> "multipleSelects", choices |-> <<>>],
     Summary |-> [type |-> "singleLineText", choices |-> <<>>]]

\* the field names the method is called with; Missing is not in the schema
FieldNamesAsked == {"Status", "Labels", "Summary", "Missing"}

\* [opt.get('name') for opt in options]
OptionNames(field) == Range(field.choices)

\* a variant that appends the option without looking for it first
AddSelectOptionAlways(fields, field_name, option, schema_raises, update_raises) ==
    IF schema_raises \/ field_name \notin DOMAIN fields
    THEN [fields |-> fields, updated |-> FALSE, raised |-> FALSE]
    ELSE [fields |-> IF update_raises THEN fields
                     ELSE [fields EXCEPT ![field_name].choices = Append(@, option)],
          updated |-> TRUE, raised |-> FALSE]

\* add_select_option; schema_raises: table.schema() or reading it raises;
\* update_raises: table.update_schema raises.  Every exception is caught.
AddSelectOption(fields, field_name, option, schema_raises, update_raises) ==
    IF schema_raises
    THEN [fields |-> fields, updated |-> FALSE, raised |-> FALSE]
    ELSE IF field_name \notin DOMAIN fields
    THEN [fields |-> fields, updated |-> FALSE, raised |-> FALSE]
    ELSE IF fields[field_name].type \notin SelectTypes
    THEN [fields |-> fields, updated |-> FALSE, raised |-> FALSE]
    ELSE IF option \notin OptionNames(fields[field_name])
    THEN [fields |-> IF update_raises THEN fields
                     ELSE [fields EXCEPT ![field_name].choices = Append(@, option)],
          updated |-> TRUE, raised |-> FALSE]
    ELSE [fields |-> fields, updated |-> FALSE, raised |-> FALSE]

InitOption == Init /\ batch_size = 1 /\ max_results = 1
                   /\ field_names = PopulateFieldNames({}, TRUE)

\* the table schema before the first call
PrepareOption ==
    /\ call.st = "none"
    /\ \E status_choices \in {<<>>, <<1>>} :
          call' = [st |-> "schema", fields |-> SchemaOf(status_choices),
                   before |-> SchemaOf(status_choices), field_name |-> "",
                   option |-> None, updated |-> FALSE, raised |-> FALSE,
                   added |-> {}, failures |-> 0]
    /\ UNCHANGED <<jira, edits, table, choices, patches, config, pc, runs, faults,
                   attempt, fetch_locals, write_locals, run_start, failed, run_log>>

\* self.add_select_option(field_name, option), any number of times
CallAddSelectOption ==
    /\ call.st \in {"schema", "option_returned"}
    /\ \E field_name \in FieldNamesAsked, option \in Options,
          schema_raises \in BOOLEAN, update_raises \in BOOLEAN :
          LET r == AddSelectOption(call.fields, field_name, option,
                                   schema_raises, update_raises)
              failure == schema_raises \/ (update_raises /\ r.updated)
          IN /\ ~(schema_raises /\ update_raises)
             /\ update_raises => r.updated
             /\ failure => call.failures < MaxSchemaFaults
             /\ call' = [st |-> "option_returned", fields |-> r.fields,
                         before |-> call.fields, field_name |-> field_name,
                         option |-> option, updated |-> r.updated,
                         raised |-> r.raised,
                         added |-> IF r.fields # call.fields
                                   THEN call.added \cup {<<field_name, option>>}
                                   ELSE call.added,
                         failures |-> IF failure THEN call.failures + 1
                                      ELSE call.failures]
    /\ UNCHANGED <<jira, edits, table, choices, patches, config, pc, runs, faults,
                   attempt, fetch_locals, write_locals, run_start, failed, run_log>>

NextOption == PrepareOption \/ CallAddSelectOption

SpecOption == InitOption /\ [][NextOption]_vars

\* no choice name occurs twice in the choices of field f of the schema
NoDuplicateChoice(f) ==
    \A x, y \in DOMAIN f.choices : f.choices[x] = f.choices[y] => x = y

\* C35: add_select_option with an option name already among the field's
\* choices issues no schema update, so repeated calls with the same value
\* never give two choices of the same name; for a missing field and for a
\* field that is no select field it issues no schema update; it never raises.
C35_AddSelectOptionIdempotent ==
    call.st = "option_returned" =>
        /\ ~call.raised
        /\ (/\ call.field_name \in DOMAIN call.before
            /\ call.option \in OptionNames(call.before[call.field_name]))
              => ~call.updated
        /\ call.field_name \notin DOMAIN call.before => ~call.updated
        /\ (/\ call.field_name \in DOMAIN call.before
            /\ call.before[call.field_name].type \notin SelectTypes)
              => ~call.updated
        /\ ~call.updated => call.fields = call.before
        /\ \A n \in DOMAIN call.fields : NoDuplicateChoice(call.fields[n])

\* C35 happens: an option that an earlier call added to the Status field was
\* asked for again, and the call issued no update and left the two choices
\* as they were
C35_Witness ==
    /\ call.st = "option_returned"
    /\ call.field_name = "Status"
    /\ <<"Status", call.option>> \in call.added
    /\ call.option \in OptionNames(call.before["Status"])
    /\ ~call.updated
    /\ Len(call.fields["Status"].choices) = 2


\* the failed invocations of the call so far
FailedAttempts == {j \in DOMAIN call.log : ~call.log[j].ok}

\* C36: between failed attempt i (counted from 0) and the next attempt
\* retry_with_backoff sleeps exactly backoff_in_seconds * 2^i seconds, and it
\* does not sleep after the final failed attempt.
C36_ExponentialBackoff ==
    call.st \in {"retrying", "retry_returned", "retry_raised"} =>
        /\ \A j \in DOMAIN call.slept : call.slept[j] = call.backoff * 2 ^ (j - 1)
        /\ Len(call.slept) =
               IF call.st = "retry_raised" THEN Cardinality(FailedAttempts) - 1
               ELSE Cardinality(FailedAttempts)
        /\ call.st = "retry_raised" => Len(call.slept) = call.retries - 1

\* C36 happens: four attempts with a base of 2 seconds all failed; the call
\* slept 2, 4 and 8 seconds and raised without a fourth sleep
C36_Witness ==
    /\ call.st = "retry_raised"
    /\ call.retries = 4
    /\ call.backoff = 2
    /\ Len(call.log) = 4
    /\ call.slept = <<2, 4, 8>>

====
